---------------------------- MODULE Spec2Model ----------------------------
(***************************************************************************)
(* Streaming anomaly scoring of tokenized log lines (felipearche/          *)
(* log-project): the orchestration loop of src/stream.py, the sliding      *)
(* conformal calibrator of src/calibration.py and the context scorer of    *)
(* src/transformer.py.                                                     *)
(*                                                                         *)
(* Numbers.  Scores and thresholds are Python floats.  They are modelled   *)
(* in fixed point, in units of 1/ScoreScale, as integers.  float("inf")    *)
(* is the integer Inf, larger than every score.  alpha is a rational       *)
(* <<num, den>> with a power-of-two denominator, so that the float         *)
(* product (1 - alpha) * n of the code is exact and Python's round()       *)
(* (half to even) and int() (truncation) are modelled exactly.             *)
(*                                                                         *)
(* Text.  A token is a sequence of characters, an event a sequence of      *)
(* tokens, a text the sequence of characters " ".join(tokens).             *)
(*                                                                         *)
(* Drift detector.  river.drift.ADWIN is a third-party library.  Its state *)
(* is modelled by the scores the instance has been fed and its delta; its  *)
(* verdict after an update is a nondeterministic Boolean.                  *)
(*                                                                         *)
(* Time.  time.perf_counter() brackets the scoring call alone.  The        *)
(* elapsed time is modelled by a cost of one unit per call plus one unit   *)
(* per character of the text; no decision reads it.                        *)
(*                                                                         *)
(* Two specifications.  Spec is the loop of src/stream.py over an event    *)
(* stream.  SpecUnit is one SlidingConformal or one TransformerScorer on   *)
(* its own, its public methods called in any order with any argument,      *)
(* including scores that are NaN, infinite, or no number at all.  NaN is a *)
(* tag; Lt, the only comparison sorted() makes, is false on it, and        *)
(* sorted() is CPython's binary insertion sort, so that a buffer that      *)
(* holds NaN is left in the order the real sort leaves it in.              *)
(***************************************************************************)
EXTENDS Integers, Sequences, FiniteSets, TLC

\* ------------------------------------------------------------------ bounds
MaxEvents == 3      \* longest event stream
MaxWindow == 2      \* largest calibrator window (--window)
MaxWarmup == 3      \* largest --warmup

\* ------------------------------------------------------- program constants
ScoreScale == 100   \* score_len: min(len(s), 100) / 100.0
Inf        == 1000000   \* float("inf")
AdwinDelta == 2     \* --adwin-delta default 0.002, in thousandths
ModelWindow == 2    \* TransformerScorer(window=...) context capacity
DecayNum   == 9     \* TransformerScorer(decay=0.90)
DecayDen   == 10
EmbedNorm  == 5     \* length of every integer embedding vector below
CpuEvery   == 25    \* a CPU% sample every 25 events

None == <<>>        \* Python None for fixed_thr: the empty tuple; a value v is <<v>>

NegInf == -Inf      \* float("-inf")
NaN    == 2 * Inf   \* float("nan"): a tag, never compared by its magnitude (see Lt)

\* ------------------------------------------------------------------ inputs
TokA == <<"a">>
TokB == <<"b", "b">>
TokC == <<"c">>     \* a token only the single scorer is given (UnitEvents)
Events == { <<>>, <<TokA>>, <<TokB>>, <<TokA, TokB>> }
Alphas == { <<1, 4>>, <<1, 2>> }
Windows == 1..MaxWindow
Warmups == 0..MaxWarmup
\* --alpha and --window values that SlidingConformal refuses
RunBadAlphas == { <<0, 1>> }
RunBadWindows == { 0 }
\* --mode baseline scores with scikit-learn (TF-IDF + IsolationForest), a
\* third-party batch model behind the same scorer contract; not modelled
Modes == { "len", "transformer" }
Streams == UNION { [1..n -> Events] : n \in 0..MaxEvents }

\* ----------------------------------------------------------------- helpers
Min(a, b) == IF a < b THEN a ELSE b
Max(a, b) == IF a > b THEN a ELSE b

\* float.__lt__: every comparison with NaN is false
Lt(a, b) == a # NaN /\ b # NaN /\ a < b

\* math.isfinite
IsFinite(x) == x # NaN /\ x # Inf /\ x # NegInf

Reverse(xs) == [j \in 1..Len(xs) |-> xs[Len(xs) + 1 - j]]

\* sorted() of a short list is CPython's binary insertion sort, which only
\* ever asks "x < y".  count_run: the run that starts the list is strictly
\* descending (and is reversed) when xs[2] < xs[1], else it is non-descending;
\* RunEnd is the index of its last element.
RECURSIVE RunEnd(_, _, _)
RunEnd(xs, j, desc) ==
  IF j >= Len(xs) THEN Len(xs)
  ELSE IF Lt(xs[j + 1], xs[j]) = desc THEN RunEnd(xs, j + 1, desc) ELSE j

\* binarysort: the insertion point of pivot in ys[l+1..r] (l, r 0-based)
RECURSIVE BinPos(_, _, _, _)
BinPos(ys, pivot, l, r) ==
  IF l >= r THEN l
  ELSE LET p == l + (r - l) \div 2
       IN  IF Lt(pivot, ys[p + 1]) THEN BinPos(ys, pivot, l, p)
           ELSE BinPos(ys, pivot, p + 1, r)

RECURSIVE BinSort(_, _)
BinSort(done, rest) ==
  IF rest = <<>> THEN done
  ELSE LET l == BinPos(done, Head(rest), 0, Len(done))
       IN  BinSort(SubSeq(done, 1, l) \o <<Head(rest)>> \o SubSeq(done, l + 1, Len(done)),
                   Tail(rest))

sorted(xs) ==
  IF Len(xs) < 2 THEN xs
  ELSE LET desc == Lt(xs[2], xs[1])
           e    == RunEnd(xs, 2, desc)
           run  == SubSeq(xs, 1, e)
       IN  BinSort(IF desc THEN Reverse(run) ELSE run, SubSeq(xs, e + 1, Len(xs)))

\* deque(maxlen=w).append(x): the oldest entry is dropped when full
DequeAppend(buf, x, w) ==
  IF Len(buf) < w THEN Append(buf, x)
  ELSE IF w = 0 THEN buf      \* maxlen=0: the entry is discarded
  ELSE Append(Tail(buf), x)

\* Python round(p / q) for q > 0, p >= 0: nearest integer, halves to even
RoundHalfEven(p, q) ==
  LET f == p \div q
      r == p % q
  IN  IF 2 * r < q THEN f
      ELSE IF 2 * r > q THEN f + 1
      ELSE IF f % 2 = 0 THEN f ELSE f + 1

\* Python int(p / q) for q > 0: truncation toward zero
Trunc(p, q) == IF p >= 0 THEN p \div q ELSE -((-p) \div q)

\* " ".join(s)
RECURSIVE Join(_)
Join(toks) ==
  IF toks = <<>> THEN <<>>
  ELSE IF Len(toks) = 1 THEN toks[1]
  ELSE toks[1] \o <<" ">> \o Join(Tail(toks))

\* text.split(): maximal runs of non-blank characters
RECURSIVE SplitFrom(_, _, _)
SplitFrom(text, cur, acc) ==
  IF text = <<>> THEN (IF cur = <<>> THEN acc ELSE Append(acc, cur))
  ELSE IF Head(text) = " "
       THEN SplitFrom(Tail(text), <<>>, IF cur = <<>> THEN acc ELSE Append(acc, cur))
       ELSE SplitFrom(Tail(text), Append(cur, Head(text)), acc)
Split(text) == SplitFrom(text, <<>>, <<>>)

\* ----------------------------------------------------- src/calibration.py
\* update that, on a full window, drops the newest buffered score
CalibUpdateEvictsNewest(buf, score, w) ==
  IF Len(buf) < w THEN Append(buf, score) ELSE Append(SubSeq(buf, 1, w - 1), score)

\* SlidingConformal(alpha, window).  The arguments are numbers <<p, q>> =
\* p / q with q > 0.  ok = FALSE when __init__ raises ValueError; otherwise
\* alpha = self.alpha and window = the deque's maxlen, int(window).  With no
\* instance made, alpha and window hold the class defaults' stand-ins.
SlidingConformalInit(a, w) ==
  IF ~(0 < a[1] /\ a[1] < a[2])
  THEN [ok |-> FALSE, alpha |-> <<1, 2>>, window |-> 1]
  ELSE IF w[1] <= 0
  THEN [ok |-> FALSE, alpha |-> <<1, 2>>, window |-> 1]
  ELSE [ok |-> TRUE, alpha |-> a, window |-> Trunc(w[1], w[2])]

\* SlidingConformal.update
CalibUpdate(buf, score, w) == DequeAppend(buf, score, w)

\* float(score).  A Python object is <<"float", x>> or <<"str", characters>>.
\* A float converts to itself.  Of the strings, the model parses the decimal
\* form "d.dd" (to hundredths, the unit of the scores); every other string of
\* the inputs below is not a number and float() raises.  The result is <<x>>,
\* or None when float() raises.
Digits == <<"0", "1", "2", "3", "4", "5", "6", "7", "8", "9">>
IsDigit(c) == \E d \in 1..Len(Digits) : Digits[d] = c
DigitVal(c) == (CHOOSE d \in 1..Len(Digits) : Digits[d] = c) - 1
StrToFloat(cs) ==
  IF Len(cs) = 4 /\ IsDigit(cs[1]) /\ cs[2] = "." /\ IsDigit(cs[3]) /\ IsDigit(cs[4])
  THEN <<ScoreScale * DigitVal(cs[1]) + 10 * DigitVal(cs[3]) + DigitVal(cs[4])>>
  ELSE None
ToFloat(obj) == IF obj[1] = "float" THEN <<obj[2]>> ELSE StrToFloat(obj[2])

\* SlidingConformal.update(score) on a Python object: ok = FALSE when it
\* raises ValueError, taken = the floats that entered the buffer
update(buf, obj, w) ==
  LET x == ToFloat(obj)
  IN  IF x = None THEN [ok |-> FALSE, buf |-> buf, taken |-> <<>>]
      ELSE [ok |-> TRUE, buf |-> CalibUpdate(buf, x[1], w), taken |-> x]

\* SlidingConformal.extend(scores): update(float(s)) for each s in order; the
\* first s that float() rejects raises and ends the loop
RECURSIVE extend(_, _, _)
extend(buf, objs, w) ==
  IF objs = <<>> THEN [ok |-> TRUE, buf |-> buf, taken |-> <<>>]
  ELSE LET x == ToFloat(Head(objs))
       IN  IF x = None THEN [ok |-> FALSE, buf |-> buf, taken |-> <<>>]
           ELSE LET r == extend(update(buf, <<"float", x[1]>>, w).buf, Tail(objs), w)
                IN  [r EXCEPT !.taken = x \o @]

\* reset that removes the oldest score only
CalibResetDropsOldest(buf) == IF buf = <<>> THEN <<>> ELSE Tail(buf)

\* reset that leaves the newest score in the buffer
CalibResetKeepsNewest(buf) == IF buf = <<>> THEN <<>> ELSE <<buf[Len(buf)]>>

\* SlidingConformal.reset
CalibReset(buf) == <<>>

\* threshold that indexes the buffer as it is, without sorting it
thresholdUnsorted(a, buf) ==
  LET n == Len(buf)
      k == Max(1, RoundHalfEven((a[2] - a[1]) * n, a[2]))
  IN  IF n = 0 THEN Inf ELSE buf[k]

\* SlidingConformal.threshold
threshold(a, buf) ==
  LET n == Len(buf)
      k == Max(1, RoundHalfEven((a[2] - a[1]) * n, a[2]))
  IN  IF n = 0 THEN Inf ELSE sorted(buf)[k]

\* ----------------------------------------------------- src/transformer.py
\* TransformerScorer._embed / _unit: a unit vector that depends on the token
\* (and the seed) alone.  SHA-256 and the NumPy generator are library code;
\* the model fixes one table of integer vectors of length EmbedNorm, so the
\* unit vector is Embed(tok) / EmbedNorm.
Embed(tok) ==
  IF tok = TokA THEN <<5, 0>>
  ELSE IF tok = TokB THEN <<3, 4>>
  ELSE IF tok = TokC THEN <<-4, -3>>
  ELSE <<0, 5>>

Dot(u, v) ==
  LET RECURSIVE S(_)
      S(j) == IF j = 0 THEN 0 ELSE u[j] * v[j] + S(j - 1)
  IN  S(Len(u))

RECURSIVE Pow(_, _)
Pow(b, e) == IF e = 0 THEN 1 ELSE b * Pow(b, e - 1)

\* floor(sqrt(x)) by bisection on lo..hi
RECURSIVE SqrtIn(_, _, _)
SqrtIn(x, lo, hi) ==
  IF lo >= hi THEN lo
  ELSE LET mid == (lo + hi + 1) \div 2
       IN  IF mid * mid <= x THEN SqrtIn(x, mid, hi) ELSE SqrtIn(x, lo, mid - 1)
ISqrt(x) == SqrtIn(x, 0, Min(x, 46340))

\* TransformerScorer._context_vector before normalisation: entry i of n
\* (oldest first) weighs decay^(n-i).  Scaled by DecayDen^(n-1) to stay in
\* the integers; the scale does not change the direction.
WeightedSum(buf) ==
  LET n == Len(buf)
      RECURSIVE S(_)
      S(i) == IF i = 0 THEN [j \in 1..Len(buf[1]) |-> 0]
              ELSE LET w == Pow(DecayNum, n - i) * Pow(DecayDen, i - 1)
                       r == S(i - 1)
                   IN  [j \in 1..Len(buf[1]) |-> w * buf[i][j] + r[j]]
  IN  S(n)

\* np.dot(ctx, e) clamped to [-1, 1], in units of 1/ScoreScale, where
\* ctx = _unit(weighted sum) and e = Embed(tok) / EmbedNorm.  _unit of a
\* zero vector is the zero vector, whose dot product is 0.
Similarity(buf, tok) ==
  LET W  == WeightedSum(buf)
      nq == ISqrt(100 * Dot(W, W))          \* 10 * |W|, rounded down
      q  == IF nq = 0 THEN 0
            ELSE (10 * ScoreScale * Dot(W, Embed(tok))) \div (EmbedNorm * nq)
  IN  Max(-ScoreScale, Min(ScoreScale, q))

\* _score that returns the mean similarity instead of the mean distance
ContextScoreSimilarity(buf, toks) ==
  LET RECURSIVE SumSim(_)
      SumSim(j) == IF j = 0 THEN 0 ELSE Similarity(buf, toks[j]) + SumSim(j - 1)
  IN  IF toks = <<>> THEN 0
      ELSE IF buf = <<>> THEN 0
      ELSE Max(0, Min(ScoreScale, SumSim(Len(toks)) \div Len(toks)))

\* _score that returns the mean distance as it is, without the final clamp
ContextScoreUnclamped(buf, toks) ==
  LET RECURSIVE SumDist(_)
      SumDist(j) == IF j = 0 THEN 0
                    ELSE (ScoreScale - Similarity(buf, toks[j])) + SumDist(j - 1)
  IN  IF toks = <<>> THEN 0
      ELSE IF buf = <<>> THEN 0
      ELSE SumDist(Len(toks)) \div Len(toks)

\* _score without the cold-start case: an empty buffer gives the zero context
\* vector, so every token is at distance 1
ContextScoreNoColdStart(buf, toks) ==
  LET RECURSIVE SumDist(_)
      SumDist(j) == IF j = 0 THEN 0
                    ELSE (ScoreScale - Similarity(buf, toks[j])) + SumDist(j - 1)
  IN  IF toks = <<>> THEN 0
      ELSE IF buf = <<>> THEN ScoreScale
      ELSE Max(0, Min(ScoreScale, SumDist(Len(toks)) \div Len(toks)))

\* TransformerScorer._score
ContextScore(buf, toks) ==
  LET RECURSIVE SumDist(_)
      SumDist(j) == IF j = 0 THEN 0
                    ELSE (ScoreScale - Similarity(buf, toks[j])) + SumDist(j - 1)
  IN  IF toks = <<>> THEN 0
      ELSE IF buf = <<>> THEN 0
      ELSE Max(0, Min(ScoreScale, SumDist(Len(toks)) \div Len(toks)))

\* append loop that ignores the tokens that arrive once the buffer is full
RECURSIVE ContextAppendKeepsFirst(_, _, _)
ContextAppendKeepsFirst(buf, toks, w) ==
  IF toks = <<>> \/ Len(buf) >= w THEN buf
  ELSE ContextAppendKeepsFirst(Append(buf, Embed(Head(toks))), Tail(toks), w)

\* the append loop of TransformerScorer.score_and_update
RECURSIVE ContextAppend(_, _, _)
ContextAppend(buf, toks, w) ==
  IF toks = <<>> THEN buf
  ELSE ContextAppend(DequeAppend(buf, Embed(Head(toks)), w), Tail(toks), w)

\* score_and_update that records an empty event as one (empty) token
score_and_updatePadsEmpty(buf, toks) ==
  [score |-> ContextScore(buf, toks),
   buf   |-> ContextAppend(buf, IF toks = <<>> THEN << <<>> >> ELSE toks, ModelWindow)]

\* score_and_update that appends the tokens before it scores them
score_and_updateAppendFirst(buf, toks) ==
  LET nb == ContextAppend(buf, toks, ModelWindow)
  IN  [score |-> ContextScore(nb, toks), buf |-> nb]

\* TransformerScorer.score_and_update: the score and the new buffer
score_and_update(buf, toks) ==
  [score |-> ContextScore(buf, toks), buf |-> ContextAppend(buf, toks, ModelWindow)]

\* reset that leaves the newest embedding in the buffer
ContextResetKeepsNewest(buf) == IF buf = <<>> THEN <<>> ELSE <<buf[Len(buf)]>>

\* TransformerScorer.reset
ContextReset(buf) == <<>>

\* ------------------------------------------------------------- src/stream.py
\* score_len, in units of 1/ScoreScale
score_len(text) == Min(Len(text), ScoreScale)

VARIABLES
  no_calib,       \* args.no_calib: TRUE = fixed-after-warmup, FALSE = adaptive
  mode,           \* args.mode
  alpha,          \* args.alpha as <<num, den>>
  window,         \* args.window
  warmup,         \* args.warmup
  seqs,           \* the token sequences of args.data, in order
  labels,         \* json.load of args.labels as <<list>>, or None without --labels
  pc,             \* position in the loop body
  i,              \* index of the current event (enumerate)
  s,              \* score of the current event
  thr,            \* threshold of the current event
  is_anom,        \* flag of the current event
  model_buf,      \* TransformerScorer._buf
  buf_before,     \* history: model_buf when the current event's scoring began
  calib_buf,      \* SlidingConformal._buf
  calib_n,
  drift,          \* the ADWIN instance
  warm_scores,
  fixed_thr,
  lat_s, scores, flags, thr_series, drift_indices,
  cpu_samples,    \* the CPU% samples taken every CpuEvery events
  y_true,         \* the labels of the events recorded so far
  p95, p99,       \* latency percentiles in ms; None until the loop has ended
  tpr1, thr_at_1pct,  \* TPR at 1% FPR as <<hits, positives>> and its threshold
  n_total, n_anom, n_drift,
  op,             \* the method a test driver called last on the object under test
  arg,            \* the argument of that call
  ret,            \* its outcome: ok = returned (FALSE = raised), val = the value
  accepted,       \* history: what the object took in since its last reset
  past,           \* history: how much it had taken in before that reset
  undone          \* history: after a reset, how many entries the call cleared
                  \* and whether the call before it was a reset as well

config == <<no_calib, mode, alpha, window, warmup, seqs, labels>>
metrics == <<p95, p99, tpr1, thr_at_1pct>>
series == <<lat_s, scores, flags, thr_series>>
calls == <<op, arg, ret, accepted, past, undone>>
loop == <<i, s, thr, is_anom, buf_before, calib_n, drift, warm_scores, fixed_thr,
          lat_s, scores, flags, thr_series, drift_indices, cpu_samples,
          y_true, p95, p99, tpr1, thr_at_1pct, n_total, n_anom, n_drift>>
vars == <<no_calib, mode, alpha, window, warmup, seqs, labels, pc, i, s, thr, is_anom,
          model_buf, buf_before, calib_buf, calib_n, drift, warm_scores,
          fixed_thr, lat_s, scores, flags, thr_series, drift_indices,
          cpu_samples, y_true, p95, p99, tpr1, thr_at_1pct, n_total, n_anom,
          n_drift, op, arg, ret, accepted, past, undone>>

\* the value of undone after a call that is no reset
NoReset == [cleared |-> 0, again |-> FALSE]

\* ADWIN(delta=args.adwin_delta): a new detector instance
ADWIN(inst, delta) == [inst |-> inst, delta |-> delta, seen |-> <<>>]

\* drift.update(s)
AdwinUpdate(d, score) == [d EXCEPT !.seen = Append(@, score)]

\* scorer that appends the event's tokens before it scores them
scorerUpdateFirst(buf, text) ==
  IF mode = "transformer"
  THEN LET toks == Split(text)
           nb   == ContextAppend(buf, toks, ModelWindow)
       IN  [score |-> ContextScore(nb, toks), buf |-> nb]
  ELSE [score |-> score_len(text), buf |-> buf]

\* scorer(text) for the selected mode: the score and the scorer's new buffer
scorer(buf, text) ==
  IF mode = "transformer"
  THEN LET toks == Split(text)
       IN  [score |-> ContextScore(buf, toks),
            buf   |-> ContextAppend(buf, toks, ModelWindow)]
  ELSE [score |-> score_len(text), buf |-> buf]

\* (p / 100.0) * n in IEEE-754 double arithmetic, truncated by int(), for an
\* integer p in 0..100 and n <= 50.  The quotient p / 100.0 is rounded to the
\* nearest double, and the product is the exact floor of p * n / 100 except
\* where the rounded quotient times n falls just below an integer:
\* 58 / 100.0 * 50 = 28.999999999999996.
RoundedBelow == { <<58, 50>> }
PercIndex(p, n) == Trunc(p * n, 100) - (IF <<p, n>> \in RoundedBelow THEN 1 ELSE 0)

\* perc that counts its index from the largest sample down
percFromTop(samples, p) ==
  IF samples = <<>> THEN [val |-> NaN, samples |-> samples]
  ELSE LET ys == sorted(samples)
       IN  [val |-> ys[Len(ys) - PercIndex(p, Len(ys) - 1)], samples |-> samples]

\* perc(samples, p): val = the value returned, samples = the caller's list
\* after the call
perc(samples, p) ==
  IF samples = <<>> THEN [val |-> NaN, samples |-> samples]
  ELSE LET ys == sorted(samples)
       IN  [val |-> ys[PercIndex(p, Len(ys) - 1) + 1], samples |-> samples]

\* x * 1000.0 (NaN stays NaN)
Milli == 1000
Times(r, c) == IF r.val = NaN THEN NaN ELSE r.val * c

\* [s for s, y in zip(scores, labels) if int(y) == lab]
RECURSIVE Labelled(_, _, _)
Labelled(sc, ys, lab) ==
  IF sc = <<>> THEN <<>>
  ELSE (IF Head(ys) = lab THEN <<Head(sc)>> ELSE <<>>)
         \o Labelled(Tail(sc), Tail(ys), lab)

\* s >= thr on floats (false on NaN)
GeFloat(a, b) == a # NaN /\ b # NaN /\ a >= b

\* sum(1 for s in pos if s >= thr)
RECURSIVE Hits(_, _)
Hits(pos, t) ==
  IF pos = <<>> THEN 0
  ELSE (IF GeFloat(Head(pos), t) THEN 1 ELSE 0) + Hits(Tail(pos), t)

\* the index of the negatives' quantile: int((1.0 - target_fpr) * (n - 1))
\* clamped to 0..n-1, for target_fpr = f[1] / f[2]
TprIndex(f, n) == Max(0, Min(Trunc((f[2] - f[1]) * (n - 1), f[2]), n - 1))

NoTpr == [tpr |-> <<NaN, 1>>, thr |-> NaN]

\* tpr_at_fpr that counts the positives strictly above the threshold
tpr_at_fprStrict(sc, lab, f) ==
  IF lab = None THEN NoTpr
  ELSE IF Len(sc) # Len(lab[1]) THEN NoTpr
  ELSE LET neg == Labelled(sc, lab[1], 0)
           pos == Labelled(sc, lab[1], 1)
       IN  IF neg = <<>> \/ pos = <<>> THEN NoTpr
           ELSE LET t == sorted(neg)[TprIndex(f, Len(neg)) + 1]
                IN  [tpr |-> <<Hits(pos, t + 1), Len(pos)>>, thr |-> t]

\* tpr_at_fpr that divides the hits by the number of all scores
tpr_at_fprOverAll(sc, lab, f) ==
  IF lab = None THEN NoTpr
  ELSE IF Len(sc) # Len(lab[1]) THEN NoTpr
  ELSE LET neg == Labelled(sc, lab[1], 0)
           pos == Labelled(sc, lab[1], 1)
       IN  IF neg = <<>> \/ pos = <<>> THEN NoTpr
           ELSE LET t == sorted(neg)[TprIndex(f, Len(neg)) + 1]
                IN  [tpr |-> <<Hits(pos, t), Len(sc)>>, thr |-> t]

\* tpr_at_fpr that scores an empty class as 0.0 instead of NaN
tpr_at_fprZero(sc, lab, f) ==
  IF lab = None THEN NoTpr
  ELSE IF Len(sc) # Len(lab[1]) THEN NoTpr
  ELSE LET neg == Labelled(sc, lab[1], 0)
           pos == Labelled(sc, lab[1], 1)
       IN  IF neg = <<>> \/ pos = <<>> THEN [tpr |-> <<0, 1>>, thr |-> 0]
           ELSE LET t == sorted(neg)[TprIndex(f, Len(neg)) + 1]
                IN  [tpr |-> <<Hits(pos, t), Len(pos)>>, thr |-> t]

\* tpr_at_fpr(scores, labels, target_fpr): the pair (tpr, thr); tpr is the
\* fraction <<hits, positives>>, and <<NaN, 1>> is float("nan")
tpr_at_fpr(sc, lab, f) ==
  IF lab = None THEN NoTpr
  ELSE IF Len(sc) # Len(lab[1]) THEN NoTpr
  ELSE LET neg == Labelled(sc, lab[1], 0)
           pos == Labelled(sc, lab[1], 1)
       IN  IF neg = <<>> \/ pos = <<>> THEN NoTpr
           ELSE LET t == sorted(neg)[TprIndex(f, Len(neg)) + 1]
                IN  [tpr |-> <<Hits(pos, t), Len(pos)>>, thr |-> t]

\* target_fpr=0.01 of the run's metric
TargetFpr == <<1, 100>>

\* t1 - t0 around scorer(text)
Elapsed(text) == 1 + Len(text)

\* _PROC.cpu_percent(None), sampled at the events whose index is a multiple
\* of CpuEvery
CpuPercent(text) == Len(text)

\* the fixed threshold: index int((1 - alpha) * (len(arr) - 1)) clamped to
\* 0..len(arr)-1 of the sorted warm-up scores (0-based)
FixedIndex(a, n) == Max(0, Min(Trunc((a[2] - a[1]) * (n - 1), a[2]), n - 1))
FixedThreshold(a, ws) == sorted(ws)[FixedIndex(a, Len(ws)) + 1]

\* the warm-up gate of the conformal branch
WarmupGate(n, w) == n >= w

\* a comparison that also flags a tie
ExceedsOrTies(score, t) == score >= t

\* the comparison that sets the flag
Exceeds(score, t) == score > t

\* the state before the loop of a run given the labels lab
Start(lab) ==
  /\ no_calib \in BOOLEAN
  /\ mode \in Modes
  /\ alpha \in Alphas \cup RunBadAlphas
  /\ window \in Windows \cup RunBadWindows
  /\ warmup \in Warmups
  /\ seqs \in Streams
  /\ labels = lab
  \* line 242: the run ends here when SlidingConformal raises
  /\ pc = IF SlidingConformalInit(alpha, <<window, 1>>).ok THEN "score" ELSE "aborted"
  /\ i = 0
  /\ s = 0
  /\ thr = Inf
  /\ is_anom = FALSE
  /\ model_buf = <<>>
  /\ buf_before = <<>>
  /\ calib_buf = <<>>
  /\ calib_n = 0
  /\ drift = ADWIN(0, AdwinDelta)
  /\ warm_scores = <<>>
  /\ fixed_thr = None
  /\ lat_s = <<>>
  /\ scores = <<>>
  /\ flags = <<>>
  /\ thr_series = <<>>
  /\ drift_indices = <<>>
  /\ cpu_samples = <<>>
  /\ y_true = <<>>
  /\ p95 = None /\ p99 = None
  /\ tpr1 = None /\ thr_at_1pct = None
  /\ n_total = 0
  /\ n_anom = 0
  /\ n_drift = 0
  /\ op = "init"
  /\ arg = None
  /\ ret = [ok |-> TRUE, val |-> 0]
  /\ accepted = <<>>
  /\ past = 0
  /\ undone = NoReset

\* a run without --labels
Init == Start(None)

\* lines 273-291: read the next event, score it, time it, buffer the warm-up
ScoreEvent ==
  /\ pc = "score"
  /\ i < Len(seqs)
  /\ LET text == Join(seqs[i + 1])
         r    == scorer(model_buf, text)
     IN  /\ s' = r.score
         /\ model_buf' = r.buf
         /\ buf_before' = model_buf
         /\ lat_s' = Append(lat_s, Elapsed(text))
         /\ n_total' = n_total + 1
         /\ cpu_samples' = IF i % CpuEvery = 0
                            THEN Append(cpu_samples, CpuPercent(text))
                            ELSE cpu_samples
         /\ warm_scores' = IF Len(warm_scores) < warmup
                           THEN Append(warm_scores, r.score) ELSE warm_scores
         /\ is_anom' = FALSE
         /\ pc' = IF no_calib THEN "fixed" ELSE "update"
  /\ UNCHANGED <<config, calls, y_true, metrics, i, thr, calib_buf, calib_n, drift, fixed_thr, scores,
                 flags, thr_series, drift_indices, n_anom, n_drift>>

\* fixed branch that freezes the threshold one event early
FixedDecideEarly ==
  /\ pc = "fixed"
  /\ LET ft == IF fixed_thr = None /\ Len(warm_scores) >= warmup - 1
                   /\ warm_scores # <<>>
                THEN <<FixedThreshold(alpha, warm_scores)>> ELSE fixed_thr
         t  == IF ft # None THEN ft[1] ELSE Inf
         a  == ft # None /\ s > t
     IN  /\ fixed_thr' = ft
         /\ thr' = t
         /\ is_anom' = a
         /\ n_anom' = IF a THEN n_anom + 1 ELSE n_anom
         /\ pc' = "drift"
  /\ UNCHANGED <<config, calls, y_true, metrics, cpu_samples, i, s, model_buf, buf_before, calib_buf, calib_n, drift,
                 warm_scores, series, drift_indices, n_total, n_drift>>

\* lines 293-305: the fixed-after-warmup branch
FixedDecide ==
  /\ pc = "fixed"
  /\ IF fixed_thr = None /\ Len(warm_scores) >= warmup /\ warm_scores = <<>>
     THEN \* arr[k] on an empty list: IndexError ends the run
          /\ pc' = "crashed"
          /\ UNCHANGED <<fixed_thr, thr, is_anom, n_anom>>
     ELSE LET ft == IF fixed_thr = None /\ Len(warm_scores) >= warmup
                    THEN <<FixedThreshold(alpha, warm_scores)>> ELSE fixed_thr
              t  == IF ft # None THEN ft[1] ELSE Inf
              a  == ft # None /\ Exceeds(s, t)
          IN  /\ fixed_thr' = ft
              /\ thr' = t
              /\ is_anom' = a
              /\ n_anom' = IF a THEN n_anom + 1 ELSE n_anom
              /\ pc' = "drift"
  /\ UNCHANGED <<config, calls, y_true, metrics, cpu_samples, i, s, model_buf, buf_before, calib_buf, calib_n, drift,
                 warm_scores, series, drift_indices, n_total, n_drift>>

\* lines 308-309: calib.update(s); calib_n += 1
ConformalUpdate ==
  /\ pc = "update"
  /\ calib_buf' = CalibUpdate(calib_buf, s, window)
  /\ calib_n' = calib_n + 1
  /\ pc' = "threshold"
  /\ UNCHANGED <<config, calls, y_true, metrics, cpu_samples, i, s, thr, is_anom, model_buf, buf_before, drift,
                 warm_scores, fixed_thr, series, drift_indices, n_total, n_anom,
                 n_drift>>

\* conformal branch whose threshold ignores the score just added
ConformalDecideStale ==
  /\ pc = "threshold"
  /\ LET t == threshold(alpha, SubSeq(calib_buf, 1, Len(calib_buf) - 1))
         a == WarmupGate(calib_n, warmup) /\ Exceeds(s, t)
     IN  /\ thr' = t
         /\ is_anom' = a
         /\ n_anom' = IF a THEN n_anom + 1 ELSE n_anom
  /\ pc' = "drift"
  /\ UNCHANGED <<config, calls, y_true, metrics, cpu_samples, i, s, model_buf, buf_before, calib_buf, calib_n, drift,
                 warm_scores, fixed_thr, series, drift_indices, n_total, n_drift>>

\* lines 310-314: thr = calib.threshold() and the gated comparison
ConformalDecide ==
  /\ pc = "threshold"
  /\ LET t == threshold(alpha, calib_buf)
         a == WarmupGate(calib_n, warmup) /\ Exceeds(s, t)
     IN  /\ thr' = t
         /\ is_anom' = a
         /\ n_anom' = IF a THEN n_anom + 1 ELSE n_anom
  /\ pc' = "drift"
  /\ UNCHANGED <<config, calls, y_true, metrics, cpu_samples, i, s, model_buf, buf_before, calib_buf, calib_n, drift,
                 warm_scores, fixed_thr, series, drift_indices, n_total, n_drift>>

\* drift handling that also recalibrates the fixed policy on a signal
DriftStepResetsFixed ==
  /\ pc = "drift"
  /\ \E detected \in BOOLEAN :
       LET d == AdwinUpdate(drift, s)
       IN  IF detected
           THEN /\ n_drift' = n_drift + 1
                /\ drift_indices' = Append(drift_indices, i)
                /\ model_buf' = IF mode = "transformer"
                                THEN ContextReset(model_buf) ELSE model_buf
                /\ calib_buf' = CalibReset(calib_buf)
                /\ drift' = ADWIN(d.inst + 1, AdwinDelta)
                /\ warm_scores' = IF no_calib THEN <<>> ELSE warm_scores
                /\ fixed_thr' = IF no_calib THEN None ELSE fixed_thr
           ELSE /\ drift' = d
                /\ UNCHANGED <<n_drift, drift_indices, model_buf, calib_buf,
                               warm_scores, fixed_thr>>
  /\ pc' = "record"
  /\ UNCHANGED <<config, calls, y_true, metrics, cpu_samples, i, s, thr, is_anom, buf_before, calib_n, series,
                 n_total, n_anom>>

\* drift handling that resets the scorer in the adaptive policy only
DriftStepSkipsScorer ==
  /\ pc = "drift"
  /\ \E detected \in BOOLEAN :
       LET d == AdwinUpdate(drift, s)
       IN  IF detected
           THEN /\ n_drift' = n_drift + 1
                /\ drift_indices' = Append(drift_indices, i)
                /\ model_buf' = IF mode = "transformer" /\ ~no_calib
                                THEN ContextReset(model_buf) ELSE model_buf
                /\ calib_buf' = IF no_calib THEN calib_buf ELSE CalibReset(calib_buf)
                /\ drift' = IF no_calib THEN d ELSE ADWIN(d.inst + 1, AdwinDelta)
           ELSE /\ drift' = d
                /\ UNCHANGED <<n_drift, drift_indices, model_buf, calib_buf>>
  /\ pc' = "record"
  /\ UNCHANGED <<config, calls, y_true, metrics, cpu_samples, i, s, thr, is_anom, buf_before, calib_n, warm_scores,
                 fixed_thr, series, n_total, n_anom>>

\* drift handling that counts a signal only where it adapts
DriftStepUncounted ==
  /\ pc = "drift"
  /\ \E detected \in BOOLEAN :
       LET d == AdwinUpdate(drift, s)
       IN  IF detected
           THEN /\ n_drift' = IF no_calib THEN n_drift ELSE n_drift + 1
                /\ drift_indices' = Append(drift_indices, i)
                /\ model_buf' = IF mode = "transformer"
                                THEN ContextReset(model_buf) ELSE model_buf
                /\ calib_buf' = IF no_calib THEN calib_buf ELSE CalibReset(calib_buf)
                /\ drift' = IF no_calib THEN d ELSE ADWIN(d.inst + 1, AdwinDelta)
           ELSE /\ drift' = d
                /\ UNCHANGED <<n_drift, drift_indices, model_buf, calib_buf>>
  /\ pc' = "record"
  /\ UNCHANGED <<config, calls, y_true, metrics, cpu_samples, i, s, thr, is_anom, buf_before, calib_n, warm_scores,
                 fixed_thr, series, n_total, n_anom>>

\* drift handling that also clears the calibrator when nothing was signalled
DriftStepResetsUnsignalled ==
  /\ pc = "drift"
  /\ \E detected \in BOOLEAN :
       LET d == AdwinUpdate(drift, s)
       IN  IF detected
           THEN /\ n_drift' = n_drift + 1
                /\ drift_indices' = Append(drift_indices, i)
                /\ model_buf' = IF mode = "transformer"
                                THEN ContextReset(model_buf) ELSE model_buf
                /\ calib_buf' = IF no_calib THEN calib_buf ELSE CalibReset(calib_buf)
                /\ drift' = IF no_calib THEN d ELSE ADWIN(d.inst + 1, AdwinDelta)
           ELSE /\ drift' = d
                /\ calib_buf' = IF no_calib THEN calib_buf ELSE CalibReset(calib_buf)
                /\ UNCHANGED <<n_drift, drift_indices, model_buf>>
  /\ pc' = "record"
  /\ UNCHANGED <<config, calls, y_true, metrics, cpu_samples, i, s, thr, is_anom, buf_before, calib_n, warm_scores,
                 fixed_thr, series, n_total, n_anom>>

\* drift handling that decides the event again after its resets
DriftStepRedecides ==
  /\ pc = "drift"
  /\ \E detected \in BOOLEAN :
       LET d == AdwinUpdate(drift, s)
       IN  IF detected
           THEN /\ n_drift' = n_drift + 1
                /\ drift_indices' = Append(drift_indices, i)
                /\ model_buf' = IF mode = "transformer"
                                THEN ContextReset(model_buf) ELSE model_buf
                /\ calib_buf' = IF no_calib THEN calib_buf ELSE CalibReset(calib_buf)
                /\ drift' = IF no_calib THEN d ELSE ADWIN(d.inst + 1, AdwinDelta)
                /\ thr' = IF no_calib THEN thr ELSE threshold(alpha, calib_buf')
                /\ is_anom' = IF no_calib THEN is_anom ELSE FALSE
           ELSE /\ drift' = d
                /\ UNCHANGED <<n_drift, drift_indices, model_buf, calib_buf, thr, is_anom>>
  /\ pc' = "record"
  /\ UNCHANGED <<config, calls, y_true, metrics, cpu_samples, i, s, buf_before, calib_n, warm_scores,
                 fixed_thr, series, n_total, n_anom>>

\* lines 317-329: drift.update(s) and, on a signal, the resets
DriftStep ==
  /\ pc = "drift"
  /\ \E detected \in BOOLEAN :
       LET d == AdwinUpdate(drift, s)
       IN  IF detected
           THEN /\ n_drift' = n_drift + 1
                /\ drift_indices' = Append(drift_indices, i)
                /\ model_buf' = IF mode = "transformer"
                                THEN ContextReset(model_buf) ELSE model_buf
                /\ calib_buf' = IF no_calib THEN calib_buf ELSE CalibReset(calib_buf)
                /\ drift' = IF no_calib THEN d ELSE ADWIN(d.inst + 1, AdwinDelta)
           ELSE /\ drift' = d
                /\ UNCHANGED <<n_drift, drift_indices, model_buf, calib_buf>>
  /\ pc' = "record"
  /\ UNCHANGED <<config, calls, y_true, metrics, cpu_samples, i, s, thr, is_anom, buf_before, calib_n, warm_scores,
                 fixed_thr, series, n_total, n_anom>>

\* record that looks the threshold up again instead of keeping thr
RecordRecomputed ==
  /\ pc = "record"
  /\ scores' = Append(scores, s)
  /\ flags' = Append(flags, IF is_anom THEN 1 ELSE 0)
  /\ thr_series' = Append(thr_series,
                          IF no_calib THEN thr ELSE threshold(alpha, calib_buf))
  /\ y_true' = IF labels # None /\ i < Len(labels[1])
                THEN Append(y_true, labels[1][i + 1]) ELSE y_true
  /\ i' = i + 1
  /\ pc' = "score"
  /\ UNCHANGED <<config, calls, metrics, cpu_samples, s, thr, is_anom, model_buf, buf_before, calib_buf,
                 calib_n, drift, warm_scores, fixed_thr, lat_s, drift_indices,
                 n_total, n_anom, n_drift>>

\* lines 332-334: the per-event series; the loop moves to the next event
Record ==
  /\ pc = "record"
  /\ scores' = Append(scores, s)
  /\ flags' = Append(flags, IF is_anom THEN 1 ELSE 0)
  /\ thr_series' = Append(thr_series, thr)
  /\ y_true' = IF labels # None /\ i < Len(labels[1])
                THEN Append(y_true, labels[1][i + 1]) ELSE y_true
  /\ i' = i + 1
  /\ pc' = "score"
  /\ UNCHANGED <<config, calls, metrics, cpu_samples, s, thr, is_anom, model_buf, buf_before, calib_buf,
                 calib_n, drift, warm_scores, fixed_thr, lat_s, drift_indices,
                 n_total, n_anom, n_drift>>

\* the stream is exhausted: the loop ends; lines 341-352: the metrics
Finish ==
  /\ pc = "score"
  /\ i = Len(seqs)
  /\ pc' = "done"
  /\ p95' = Times(perc(lat_s, 95), Milli)
  /\ p99' = Times(perc(lat_s, 99), Milli)
  /\ LET m == IF labels # None /\ Len(y_true) = Len(scores)
              THEN tpr_at_fpr(scores, <<y_true>>, TargetFpr)
              ELSE NoTpr
     IN  tpr1' = m.tpr /\ thr_at_1pct' = m.thr
  /\ UNCHANGED <<config, calls, y_true, cpu_samples, i, s, thr, is_anom, model_buf, buf_before, calib_buf,
                 calib_n, drift, warm_scores, fixed_thr, series, drift_indices,
                 n_total, n_anom, n_drift>>

Next ==
  \/ ScoreEvent
  \/ FixedDecide
  \/ ConformalUpdate
  \/ ConformalDecide
  \/ DriftStep
  \/ Record
  \/ Finish

Spec == Init /\ [][Next]_vars

\* ------------------------------------------------- the loop on any machine
\* The same loop where the clock and the CPU sampler return what the machine
\* gives: the scorer call takes its nominal time or twice that, psutil may
\* be missing, and a sample is any of two readings.
Latencies(text) == { Elapsed(text), 2 * Elapsed(text) }
CpuReadings(text) == { <<>>, <<CpuPercent(text)>>, <<2 * CpuPercent(text) + 1>> }

\* the runs timed: non-empty events of two lengths, a warm-up that ends
\* within the stream
TimedStreams == UNION { [1..n -> { <<TokA>>, <<TokA, TokB>> }] : n \in 0..MaxEvents }
TimedWarmups == { 1, 2 }

InitTimed ==
  /\ Init
  /\ seqs \in TimedStreams
  /\ warmup \in TimedWarmups

\* scoring that gives up on an event the machine was slow on
ScoreEventTimedGivesUp ==
  /\ pc = "score"
  /\ i < Len(seqs)
  /\ LET text == Join(seqs[i + 1])
         r    == scorer(model_buf, text)
     IN  \E lat \in Latencies(text), cpu \in CpuReadings(text) :
           LET sc == IF lat > Elapsed(text) THEN 0 ELSE r.score
           IN  /\ i % CpuEvery = 0 \/ cpu = <<>>
               /\ s' = sc
               /\ model_buf' = r.buf
               /\ buf_before' = model_buf
               /\ lat_s' = Append(lat_s, lat)
               /\ n_total' = n_total + 1
               /\ cpu_samples' = cpu_samples \o cpu
               /\ warm_scores' = IF Len(warm_scores) < warmup
                                 THEN Append(warm_scores, sc) ELSE warm_scores
               /\ is_anom' = FALSE
               /\ pc' = IF no_calib THEN "fixed" ELSE "update"
  /\ UNCHANGED <<config, calls, y_true, metrics, i, thr, calib_buf, calib_n, drift, fixed_thr, scores,
                 flags, thr_series, drift_indices, n_anom, n_drift>>

\* lines 273-291 with the measured values left open
ScoreEventTimed ==
  /\ pc = "score"
  /\ i < Len(seqs)
  /\ LET text == Join(seqs[i + 1])
         r    == scorer(model_buf, text)
     IN  \E lat \in Latencies(text), cpu \in CpuReadings(text) :
           /\ i % CpuEvery = 0 \/ cpu = <<>>
           /\ s' = r.score
           /\ model_buf' = r.buf
           /\ buf_before' = model_buf
           /\ lat_s' = Append(lat_s, lat)
           /\ n_total' = n_total + 1
           /\ cpu_samples' = cpu_samples \o cpu
           /\ warm_scores' = IF Len(warm_scores) < warmup
                             THEN Append(warm_scores, r.score) ELSE warm_scores
           /\ is_anom' = FALSE
           /\ pc' = IF no_calib THEN "fixed" ELSE "update"
  /\ UNCHANGED <<config, calls, y_true, metrics, i, thr, calib_buf, calib_n, drift, fixed_thr, scores,
                 flags, thr_series, drift_indices, n_anom, n_drift>>

NextTimed ==
  \/ ScoreEventTimed
  \/ FixedDecide
  \/ ConformalUpdate
  \/ ConformalDecide
  \/ DriftStep
  \/ Record
  \/ Finish

SpecTimed == InitTimed /\ [][NextTimed]_vars

\* ---------------------------------------------------- the loop with labels
\* Runs given --labels: a list of 0/1 labels of any length up to the longest
\* stream, so shorter than, as long as, or longer than the stream.  The
\* metric reads the scores and the labels only, so one scorer, one alpha,
\* one window and one warm-up are run in both policies.
LabelLists == UNION { [1..n -> {0, 1}] : n \in 0..MaxEvents }
Labellings == { None } \cup { <<ls>> : ls \in LabelLists }

InitLabelled ==
  /\ \E lab \in Labellings : Start(lab)
  /\ mode = "len"
  /\ alpha = <<1, 2>>
  /\ window = MaxWindow
  /\ warmup = 1

SpecLabelled == InitLabelled /\ [][Next]_vars

\* ------------------------------------------- one object driven call by call
\* A test driver constructs one SlidingConformal (pc = "calib") or one
\* TransformerScorer (pc = "scorer") and calls its methods in any order with
\* any argument.  The variables of the loop above keep their initial values.
MaxCalls == 4       \* most scores (tokens) one object takes in during a run

UnitAlphas == Alphas \cup { <<1, 8>> }
UnitWindows == 1..(MaxWindow + 1)
\* the floats of the inputs: two finite scores, +inf and NaN (-inf is taken
\* in like +inf and is left out to keep the state space small)
Floats == { 1, 2, Inf, NaN }
Objects == { <<"float", x>> : x \in Floats }
             \cup { <<"str", <<"0", ".", "0", "2">> >>, <<"str", <<"x">> >> }
ExtendObjects == { <<"float", 1>>, <<"str", <<"x">> >> }
ExtendArgs == UNION { [1..n -> ExtendObjects] : n \in 0..2 }
\* events for the single scorer: also a token whose embedding points away
\* from the others, and an event longer than the context window
UnitEvents == Events \cup { <<TokC>>, <<TokA, TokB, TokC>> }
UnitTokens == { TokA, TokB, TokC }

\* TransformerScorer(embed_dim, window, decay).  embed_dim and window are
\* Python objects <<"int", n>> or <<"float", n>> (the float n.0); decay is a
\* number <<p, q>>.  ok = FALSE when __init__ raises ValueError.
TransformerScorerInit(embed_dim, w, decay) ==
  IF embed_dim[1] # "int" \/ embed_dim[2] <= 0
  THEN [ok |-> FALSE, embed_dim |-> 0, window |-> 0, decay |-> <<0, 1>>]
  ELSE IF w[1] # "int" \/ w[2] <= 0
  THEN [ok |-> FALSE, embed_dim |-> 0, window |-> 0, decay |-> <<0, 1>>]
  ELSE IF ~(0 < decay[1] /\ decay[1] < decay[2])
  THEN [ok |-> FALSE, embed_dim |-> 0, window |-> 0, decay |-> <<0, 1>>]
  ELSE [ok |-> TRUE, embed_dim |-> embed_dim[2], window |-> w[2], decay |-> decay]

\* the constructor calls of the driver: every valid calibrator of the unit
\* bounds, and one argument at a time outside its range or of another type
EmbedDim == Len(Embed(TokA))
BadAlphas == { <<0, 1>>, <<1, 1>>, <<-1, 2>>, <<3, 2>> }
BadWindows == { <<0, 1>>, <<-1, 1>> }
FractionalWindows == { <<1, 2>>, <<3, 2>> }
CalibCtorArgs ==
  (UnitAlphas \X { <<n, 1>> : n \in UnitWindows })
    \cup (BadAlphas \X { <<1, 1>> })
    \cup ({ <<1, 2>> } \X (BadWindows \cup FractionalWindows))
ScorerCtorArgs ==
  { <<<<"int", EmbedDim>>, <<"int", ModelWindow>>, <<DecayNum, DecayDen>>>> }
    \cup ({ <<"int", 0>>, <<"int", -1>>, <<"float", EmbedDim>> }
            \X { <<"int", ModelWindow>> } \X { <<DecayNum, DecayDen>> })
    \cup ({ <<"int", EmbedDim>> }
            \X { <<"int", 0>>, <<"int", -1>>, <<"float", ModelWindow>> }
            \X { <<DecayNum, DecayDen>> })
    \cup ({ <<"int", EmbedDim>> } \X { <<"int", ModelWindow>> }
            \X { <<0, 1>>, <<1, 1>>, <<-1, 2>>, <<3, 2>> })

InitUnit ==
  /\ \/ \E c \in CalibCtorArgs :
          LET r == SlidingConformalInit(c[1], c[2])
          IN  /\ arg = <<"SlidingConformal", c[1], c[2]>>
              /\ ret = [ok |-> r.ok, val |-> 0]
              /\ pc = IF r.ok THEN "calib" ELSE "rejected"
              /\ alpha = r.alpha
              /\ window = r.window
     \/ \E c \in ScorerCtorArgs :
          LET r == TransformerScorerInit(c[1], c[2], c[3])
          IN  /\ arg = <<"TransformerScorer", c[1], c[2], c[3]>>
              /\ ret = [ok |-> r.ok, val |-> 0]
              /\ pc = IF r.ok THEN "scorer" ELSE "rejected"
              /\ alpha = <<1, 2>> /\ window = 1   \* no calibrator is made
  /\ no_calib = FALSE
  /\ mode = "transformer"
  /\ warmup = 0
  /\ seqs = <<>>
  /\ labels = None
  /\ i = 0
  /\ s = 0
  /\ thr = Inf
  /\ is_anom = FALSE
  /\ model_buf = <<>>
  /\ buf_before = <<>>
  /\ calib_buf = <<>>
  /\ calib_n = 0
  /\ drift = ADWIN(0, AdwinDelta)
  /\ warm_scores = <<>>
  /\ fixed_thr = None
  /\ lat_s = <<>>
  /\ scores = <<>>
  /\ flags = <<>>
  /\ thr_series = <<>>
  /\ drift_indices = <<>>
  /\ cpu_samples = <<>>
  /\ y_true = <<>>
  /\ p95 = None /\ p99 = None
  /\ tpr1 = None /\ thr_at_1pct = None
  /\ n_total = 0
  /\ n_anom = 0
  /\ n_drift = 0
  /\ op = "init"
  /\ accepted = <<>>
  /\ past = 0
  /\ undone = NoReset

\* calib.update(obj)
CallUpdate ==
  /\ pc = "calib"
  /\ \E obj \in Objects :
       LET r == update(calib_buf, obj, window)
       IN  /\ past + Len(accepted) + Len(r.taken) <= MaxCalls
           /\ calib_buf' = r.buf
           /\ accepted' = accepted \o r.taken
           /\ op' = "update"
           /\ arg' = obj
           /\ ret' = [ok |-> r.ok, val |-> 0]
           /\ undone' = NoReset
  /\ UNCHANGED <<config, pc, loop, model_buf, past>>

\* calib.extend(objs)
CallExtend ==
  /\ pc = "calib"
  /\ \E objs \in ExtendArgs :
       LET r == extend(calib_buf, objs, window)
       IN  /\ past + Len(accepted) + Len(r.taken) <= MaxCalls
           /\ calib_buf' = r.buf
           /\ accepted' = accepted \o r.taken
           /\ op' = "extend"
           /\ arg' = objs
           /\ ret' = [ok |-> r.ok, val |-> 0]
           /\ undone' = NoReset
  /\ UNCHANGED <<config, pc, loop, model_buf, past>>

\* calib.reset()
CallReset ==
  /\ pc = "calib"
  /\ calib_buf' = CalibReset(calib_buf)
  /\ accepted' = <<>>
  /\ past' = past + Len(accepted)
  /\ undone' = [cleared |-> Len(calib_buf) - Len(calib_buf'), again |-> op = "reset"]
  /\ op' = "reset"
  /\ arg' = None
  /\ ret' = [ok |-> TRUE, val |-> 0]
  /\ UNCHANGED <<config, pc, loop, model_buf>>

\* threshold() that sorts the buffer itself instead of a copy
CallThresholdSortsInPlace ==
  /\ pc = "calib"
  /\ op' = "threshold"
  /\ arg' = None
  /\ ret' = [ok |-> TRUE, val |-> threshold(alpha, calib_buf)]
  /\ undone' = NoReset
  /\ calib_buf' = sorted(calib_buf)
  /\ UNCHANGED <<config, pc, loop, model_buf, accepted, past>>

\* calib.threshold()
CallThreshold ==
  /\ pc = "calib"
  /\ op' = "threshold"
  /\ arg' = None
  /\ ret' = [ok |-> TRUE, val |-> threshold(alpha, calib_buf)]
  /\ undone' = NoReset
  /\ UNCHANGED <<config, pc, loop, model_buf, calib_buf, accepted, past>>

\* model.score_and_update(toks)
CallScoreAndUpdate ==
  /\ pc = "scorer"
  /\ \E toks \in UnitEvents :
       LET r == score_and_update(model_buf, toks)
       IN  /\ past + Len(accepted) + Len(toks) <= MaxCalls
           /\ model_buf' = r.buf
           /\ accepted' = accepted \o toks
           /\ op' = "score_and_update"
           /\ arg' = toks
           /\ ret' = [ok |-> TRUE, val |-> r.score]
           /\ undone' = NoReset
  /\ UNCHANGED <<config, pc, loop, calib_buf, past>>

\* model.reset()
CallScorerReset ==
  /\ pc = "scorer"
  /\ model_buf' = ContextReset(model_buf)
  /\ accepted' = <<>>
  /\ past' = past + Len(accepted)
  /\ undone' = [cleared |-> Len(model_buf) - Len(model_buf'), again |-> op = "reset"]
  /\ op' = "reset"
  /\ arg' = None
  /\ ret' = [ok |-> TRUE, val |-> 0]
  /\ UNCHANGED <<config, pc, loop, calib_buf>>

\* _embed that draws from one generator shared by all calls, so that the
\* vector depends on how many tokens were embedded before
CallEmbedSharedGenerator ==
  /\ pc = "scorer"
  /\ \E tok \in UnitTokens :
       /\ op' = "_embed"
       /\ arg' = tok
       /\ ret' = [ok |-> TRUE,
                  val |-> IF (past + Len(accepted)) % 2 = 0
                          THEN Embed(tok) ELSE Reverse(Embed(tok))]
  /\ undone' = NoReset
  /\ UNCHANGED <<config, pc, loop, calib_buf, model_buf, accepted, past>>

\* model._embed(tok)
CallEmbed ==
  /\ pc = "scorer"
  /\ \E tok \in UnitTokens :
       /\ op' = "_embed"
       /\ arg' = tok
       /\ ret' = [ok |-> TRUE, val |-> Embed(tok)]
  /\ undone' = NoReset
  /\ UNCHANGED <<config, pc, loop, calib_buf, model_buf, accepted, past>>

NextUnit ==
  \/ CallUpdate
  \/ CallExtend
  \/ CallReset
  \/ CallThreshold
  \/ CallScoreAndUpdate
  \/ CallScorerReset
  \/ CallEmbed

SpecUnit == InitUnit /\ [][NextUnit]_vars

\* ------------------------------------------- the metric functions by call
\* A test driver calls perc and tpr_at_fpr (pc = "metrics") on lists it
\* built: op and arg are the call, ret its result (for perc with the
\* caller's list as the call left it).
MaxSamples == 3     \* longest list of the exhaustive inputs

SampleValues == { 1, 2, 3 }
SampleLists == UNION { [1..n -> SampleValues] : n \in 0..MaxSamples }
\* 51 distinct latencies, the shortest list on which double rounding shows
LongSample == [j \in 1..51 |-> 52 - j]
Percents == { 0, 50, 58, 95, 99, 100 }

\* Scenario D: labels [0,0,0,1], scores [1,2,3,10], target_fpr 0.01
ScenarioDScores == <<1, 2, 3, 10>>
ScenarioDLabels == <<0, 0, 0, 1>>
MetricLabels == { None } \cup { <<ls>> : ls \in UNION { [1..n -> {0, 1}] : n \in 0..MaxSamples } }
TargetFprs == { TargetFpr, <<1, 2>>, <<1, 1>> }

InitMetrics ==
  /\ pc = "metrics"
  /\ no_calib = FALSE
  /\ mode = "len"
  /\ alpha = <<1, 2>>
  /\ window = 1
  /\ warmup = 1
  /\ seqs = <<>>
  /\ labels = None
  /\ i = 0
  /\ s = 0
  /\ thr = Inf
  /\ is_anom = FALSE
  /\ model_buf = <<>>
  /\ buf_before = <<>>
  /\ calib_buf = <<>>
  /\ calib_n = 0
  /\ drift = ADWIN(0, AdwinDelta)
  /\ warm_scores = <<>>
  /\ fixed_thr = None
  /\ lat_s = <<>>
  /\ scores = <<>>
  /\ flags = <<>>
  /\ thr_series = <<>>
  /\ drift_indices = <<>>
  /\ cpu_samples = <<>>
  /\ y_true = <<>>
  /\ p95 = None /\ p99 = None
  /\ tpr1 = None /\ thr_at_1pct = None
  /\ n_total = 0
  /\ n_anom = 0
  /\ n_drift = 0
  /\ op = "init"
  /\ arg = None
  /\ ret = [ok |-> TRUE, val |-> 0]
  /\ accepted = <<>>
  /\ past = 0
  /\ undone = NoReset

\* perc(samples, p).  The functions keep no state: one call per run of the
\* driver reaches every outcome.
CallPerc ==
  /\ pc = "metrics"
  /\ op = "init"
  /\ \E xs \in SampleLists \cup { LongSample }, p \in Percents :
       LET r == perc(xs, p)
       IN  /\ op' = "perc"
           /\ arg' = <<xs, p>>
           /\ ret' = [ok |-> TRUE, val |-> r.val, samples |-> r.samples]
  /\ UNCHANGED <<config, pc, loop, calib_buf, model_buf, accepted, past, undone>>

\* tpr_at_fpr(scores, labels, target_fpr)
CallTprAtFpr ==
  /\ pc = "metrics"
  /\ op = "init"
  /\ \E sc \in SampleLists \cup { ScenarioDScores },
        lab \in MetricLabels \cup { <<ScenarioDLabels>> },
        f \in TargetFprs :
       LET r == tpr_at_fpr(sc, lab, f)
       IN  /\ op' = "tpr_at_fpr"
           /\ arg' = <<sc, lab, f>>
           /\ ret' = [ok |-> TRUE, val |-> r.tpr, thr |-> r.thr]
  /\ UNCHANGED <<config, pc, loop, calib_buf, model_buf, accepted, past, undone>>

NextMetrics ==
  \/ CallPerc
  \/ CallTprAtFpr

SpecMetrics == InitMetrics /\ [][NextMetrics]_vars

\* ============================================================== properties
Last(xs) == xs[Len(xs)]

\* an event is in progress: it has been scored and is not yet recorded
InEvent == pc \in {"fixed", "update", "threshold", "drift", "record"}
\* the event in progress is scored and not yet decided
Undecided == pc \in {"fixed", "update", "threshold"}
\* no event is in progress
Between == pc \in {"score", "done"}

\* every score produced so far, the current event's included
AllScores == IF InEvent THEN Append(scores, s) ELSE scores

\* the tokens of the event in progress, as the scorer receives them
CurTokens == Split(Join(seqs[i + 1]))

\* the drift signalled at the event in progress (pc = "record") or at the
\* event just recorded (pc = "score")
DriftedNow == drift_indices # <<>> /\ pc = "record" /\ Last(drift_indices) = i
DriftedLast == drift_indices # <<>> /\ Between /\ Last(drift_indices) = i - 1

\* the scores a detector instance has been fed if it is fed every score once,
\* in order, and replaced on a signal in the adaptive policy only
FedSince(sc) ==
  IF no_calib \/ drift_indices = <<>> THEN sc
  ELSE SubSeq(sc, Last(drift_indices) + 2, Len(sc))

\* number of events processed since the most recent calibrator reset, up to
\* and including the event with 0-based index e (a drift at e resets after e
\* is decided)
SinceReset(e) ==
  LET before == { d \in 0..(e - 1) :
                    \E j \in 1..Len(drift_indices) : drift_indices[j] = d }
  IN  IF before = {} THEN e + 1
      ELSE e - (CHOOSE d \in before : \A x \in before : x <= d)

RECURSIVE CountOnes(_)
CountOnes(fs) == IF fs = <<>> THEN 0 ELSE Head(fs) + CountOnes(Tail(fs))

\* C1: in the adaptive policy the calibrator is updated with the event's
\* score first and the threshold is recomputed afterwards: once an event is
\* decided, the calibrator has seen one score per event, its newest entry is
\* the event's score, the threshold used is the quantile of that buffer, and
\* a flag is set only if the score exceeds it.
C1_UpdateThenThreshold ==
  (~no_calib /\ pc = "drift") =>
     /\ calib_n = n_total
     /\ calib_buf # <<>>
     /\ Last(calib_buf) = s
     /\ thr = threshold(alpha, calib_buf)
     /\ is_anom => s > thr

C1_Witness ==
  /\ ~no_calib /\ pc = "drift" /\ Len(calib_buf) = 2
  /\ calib_buf[1] < calib_buf[2] /\ thr = calib_buf[1] /\ is_anom

\* C2: in the adaptive policy every flagged event has at least `warmup`
\* events processed since the most recent calibrator reset (since the start
\* of the run when there was none), itself included.
C2_WarmupSinceReset ==
  ~no_calib =>
     \A j \in 1..Len(flags) : flags[j] = 1 => SinceReset(j - 1) >= warmup

\* State part of C3: a drift signal at event i, in the adaptive policy, empties the
\* calibrator and replaces the detector by a fresh instance with the same
\* delta, and they are still so when event i+1 is read; in the fixed policy
\* it changes neither the calibrator, nor the detector instance (which only
\* takes the score), nor the frozen threshold, nor the warm-up buffer.
C3_DriftState ==
  (DriftedNow \/ DriftedLast) /\ ~no_calib =>
     /\ calib_buf = <<>>
     /\ drift.seen = <<>>
     /\ drift.delta = AdwinDelta
     /\ drift.inst = n_drift

C3_DriftStep ==
  (pc = "drift" /\ n_drift' = n_drift + 1) =>
     IF no_calib
     THEN /\ calib_buf' = calib_buf
          /\ drift'.inst = drift.inst
          /\ drift'.delta = drift.delta
          /\ drift'.seen = Append(drift.seen, s)
          /\ fixed_thr' = fixed_thr
          /\ warm_scores' = warm_scores
     ELSE /\ calib_buf' = <<>>
          /\ drift'.inst # drift.inst
          /\ drift'.delta = drift.delta
          /\ drift'.seen = <<>>

\* C3: the state after a drift signal (C3_DriftState, always) and the effect
\* of the signalling step on calibrator, detector and frozen threshold
\* (C3_DriftStep, every step).
C3_DriftResets == []C3_DriftState /\ [][C3_DriftStep]_vars

C3_Witness ==
  /\ no_calib /\ DriftedNow /\ fixed_thr # None
  /\ Len(drift.seen) >= 2 /\ thr # Inf

\* C4: with the context scorer, after a drift signal at event i the context
\* buffer is empty until event i+1 is scored, in both policies, and event
\* i+1 scores 0.
C4_ScorerResetOnDrift ==
  mode = "transformer" =>
     /\ (DriftedNow \/ DriftedLast) => model_buf = <<>>
     /\ \A j \in 1..Len(drift_indices) :
          drift_indices[j] + 2 <= Len(AllScores)
             => AllScores[drift_indices[j] + 2] = 0

C4_Witness ==
  /\ mode = "transformer" /\ no_calib /\ pc = "fixed"
  /\ drift_indices # <<>> /\ Last(drift_indices) = i - 1
  /\ i >= 2 /\ scores[i] > 0 /\ CurTokens # <<>> /\ s = 0

\* C5: the detector is fed every score exactly once, in event order; the
\* drift counter equals the number of recorded drift indices, which are
\* strictly increasing indices of processed events, and never exceeds the
\* number of events processed.
C5_DriftAccounting ==
  /\ drift.seen = FedSince(IF pc = "record" THEN Append(scores, s) ELSE scores)
  /\ n_drift = Len(drift_indices)
  /\ n_drift <= n_total
  /\ \A j \in 1..Len(drift_indices) :
       /\ drift_indices[j] \in 0..(n_total - 1)
       /\ j > 1 => drift_indices[j - 1] < drift_indices[j]

C5_Witness ==
  /\ no_calib /\ pc = "done" /\ n_drift = 2 /\ n_total = 3
  /\ drift_indices = <<0, 2>> /\ Len(drift.seen) = 3

\* State part of C6: in the fixed policy the warm-up buffer is the first `warmup` scores
\* of the stream; once frozen, the threshold is the fixed quantile of that
\* buffer, it is never assigned again, and every threshold recorded from the
\* freezing event on equals it.
C6_Frozen ==
  no_calib =>
     /\ warm_scores = SubSeq(AllScores, 1, Min(warmup, Len(AllScores)))
     /\ fixed_thr # None =>
          /\ Len(warm_scores) = warmup
          /\ fixed_thr[1] = FixedThreshold(alpha, warm_scores)
          /\ \A j \in warmup..Len(thr_series) : thr_series[j] = fixed_thr[1]

C6_Once == fixed_thr # None => fixed_thr' = fixed_thr

\* C6: the frozen threshold is the fixed quantile of the first `warmup`
\* scores and every later recorded threshold equals it (C6_Frozen, always);
\* once set it is never assigned again (C6_Once, every step).
C6_FixedThresholdFrozen == []C6_Frozen /\ [][C6_Once]_vars

C6_Witness ==
  /\ no_calib /\ pc = "done" /\ warmup = 1 /\ n_total = 3 /\ n_drift >= 1
  /\ scores[1] < scores[2] /\ scores[3] < scores[1]
  /\ thr_series = <<scores[1], scores[1], scores[1]>>

\* C7 as stated: in the fixed policy none of the first `warmup` events is
\* flagged.
C7_NoFlagInWarmup ==
  no_calib =>
     \A j \in 1..Min(warmup, Len(flags)) : flags[j] = 0

\* C7 amended: in the fixed policy the first warmup-1 events are recorded
\* with an infinite threshold and flag 0; the warmup-th event completes the
\* buffer and is decided against the threshold frozen at that event.
C7_BeforeFrozen ==
  no_calib =>
     /\ \A j \in 1..Min(warmup - 1, Len(flags)) :
          flags[j] = 0 /\ thr_series[j] = Inf
     /\ (warmup >= 1 /\ Len(thr_series) >= warmup) =>
          /\ thr_series[warmup] = FixedThreshold(alpha, SubSeq(scores, 1, warmup))
          /\ flags[warmup] = IF scores[warmup] > thr_series[warmup] THEN 1 ELSE 0

C7_Witness ==
  /\ no_calib /\ warmup = 2 /\ Len(flags) >= 2
  /\ flags[1] = 0 /\ thr_series[1] = Inf /\ flags[2] = 1

\* C8: the frozen threshold of the fixed policy equals what
\* SlidingConformal.threshold() returns for the same warm-up scores.
C8_SameQuantileRule ==
  (no_calib /\ fixed_thr # None) =>
     fixed_thr[1] = threshold(alpha, warm_scores)

\* C9 as stated: the threshold is looked up before the calibrator is updated
\* with the event's score, and the scorer's context is updated with the
\* event only after the decision.
C9_DecideBeforeUpdates ==
  /\ pc = "threshold" => calib_n = n_total - 1
  /\ Undecided => model_buf = buf_before

\* C9 amended: score (the scorer's context is updated inside the scoring
\* call, after the score is computed from the context as it was), then in
\* the adaptive policy the calibrator update, then threshold lookup and
\* decision, then the drift update, then the record.
C9_StepOrder ==
  /\ InEvent => Len(scores) = i /\ n_total = i + 1
  /\ (InEvent /\ mode = "transformer") =>
        s = ContextScore(buf_before, CurTokens)
  /\ (Undecided /\ mode = "transformer") =>
        model_buf = ContextAppend(buf_before, CurTokens, ModelWindow)
  /\ pc = "update" => calib_n = n_total - 1
  /\ pc = "threshold" => calib_n = n_total /\ Last(calib_buf) = s
  /\ (Undecided \/ pc = "drift") => drift.seen = FedSince(scores)
  /\ pc = "record" => drift.seen = FedSince(Append(scores, s))

C9_Witness ==
  /\ mode = "transformer" /\ ~no_calib /\ pc = "threshold"
  /\ buf_before # <<>> /\ model_buf # buf_before /\ s > 0
  /\ Len(calib_buf) = 2

\* C10: between events, after n processed events, the score, threshold,
\* flag and latency series have length n; entry j is event j's (its latency,
\* and its score where the scorer is stateless); the last entries are the
\* score, threshold and flag of the decision just made; a flag is 1 only if
\* the recorded score exceeds the recorded threshold; and the anomaly
\* counter is the number of flags set to 1.
C10_Series ==
  /\ Between =>
       /\ Len(scores) = n_total /\ Len(thr_series) = n_total
       /\ Len(flags) = n_total /\ Len(lat_s) = n_total
       /\ n_total = i
       /\ n_anom = CountOnes(flags)
       /\ n_total > 0 =>
            /\ Last(scores) = s
            /\ Last(thr_series) = thr
            /\ Last(flags) = IF is_anom THEN 1 ELSE 0
  /\ \A j \in 1..Len(flags) :
       /\ flags[j] \in {0, 1}
       /\ flags[j] = 1 => scores[j] > thr_series[j]
  /\ \A j \in 1..Len(lat_s) : lat_s[j] = Elapsed(Join(seqs[j]))
  /\ mode = "len" => \A j \in 1..Len(scores) : scores[j] = score_len(Join(seqs[j]))

C10_Witness ==
  /\ pc = "done" /\ n_total = 3 /\ n_anom = 2 /\ flags = <<0, 1, 1>>
  /\ ~no_calib /\ n_drift >= 1 /\ Len(lat_s) = 3

\* ------------------------------------------- properties of the single objects
\* a new SlidingConformal(window = w) fed the floats xs in order
RECURSIVE Fed(_, _, _)
Fed(buf, xs, w) == IF xs = <<>> THEN buf ELSE Fed(CalibUpdate(buf, Head(xs), w), Tail(xs), w)

\* the last n entries of xs
LastN(xs, n) == SubSeq(xs, Len(xs) - n + 1, Len(xs))

\* C11: after any sequence of update, extend and reset calls the buffer is
\* the last min(m, w) scores accepted since the most recent reset, in arrival
\* order (m of them accepted since then), so it never holds more than w
\* scores and the oldest is the one evicted; a window of 4 fed 1,2,3,4,5
\* holds 2,3,4,5.
C11_LastWindow ==
  pc = "calib" =>
    /\ calib_buf = LastN(accepted, Min(Len(accepted), window))
    /\ Len(calib_buf) <= window
    /\ Fed(<<>>, <<1, 2, 3, 4, 5>>, 4) = <<2, 3, 4, 5>>

\* an update evicted the oldest score of a full window
C11_Witness ==
  /\ pc = "calib"
  /\ op = "update"
  /\ ret.ok
  /\ window = 2
  /\ Len(accepted) = 3
  /\ accepted[1] # accepted[2]
  /\ calib_buf = <<accepted[2], accepted[3]>>

\* float.__gt__
Gt(a, b) == Lt(b, a)

\* how many entries of buf stand in relation R(_, v) to v
CountRel(buf, v, R(_, _)) == Cardinality({ j \in 1..Len(buf) : R(buf[j], v) })

\* k of SlidingConformal.threshold for n buffered scores
KIndex(a, n) == Max(1, RoundHalfEven((a[2] - a[1]) * n, a[2]))

\* Scenario A: 500 identical scores 5.0 with alpha = 0.01 give 5.0.  For
\* n = 500 the index is 495 (in floating point (1.0 - 0.01) * 500 is 495.0);
\* the sort is checked on 5 of the 500 identical scores.
ScenarioA ==
  /\ KIndex(<<1, 100>>, 500) = 495
  /\ threshold(<<1, 100>>, [j \in 1..5 |-> 5 * ScoreScale]) = 5 * ScoreScale

\* Scenario B: the buffer 2,3,4,5 with alpha = 0.5 gives 3
ScenarioB == threshold(<<1, 2>>, <<2, 3, 4, 5>>) = 3

\* C12: for a non-empty buffer of n scores threshold() returns the k-th
\* smallest buffered score, k = max(1, round((1 - alpha) * n)) with halves
\* to even: fewer than k scores are smaller than it and at most n - k are
\* larger; k is in 1..n and the result is one of the buffered scores.
C12_KthSmallest ==
  (pc = "calib" /\ op = "threshold" /\ calib_buf # <<>>) =>
    LET n == Len(calib_buf)
        k == KIndex(alpha, n)
        v == ret.val
    IN  /\ k \in 1..n
        /\ \E j \in 1..n : calib_buf[j] = v
        /\ CountRel(calib_buf, v, Lt) < k
        /\ CountRel(calib_buf, v, Gt) <= n - k
        /\ ScenarioA
        /\ ScenarioB

\* C13: threshold() returns infinity exactly when the buffer is empty (a new
\* calibrator, or right after reset()), and then no finite score compares
\* greater than it; for a non-empty buffer of finite scores it returns a
\* finite value.
C13_InfIffEmpty ==
  (pc = "calib" /\ op = "threshold") =>
    /\ (ret.val = Inf) <=> (calib_buf = <<>>)
    /\ calib_buf = <<>> => \A x \in Floats : IsFinite(x) => ~Exceeds(x, ret.val)
    /\ (calib_buf # <<>> /\ \A j \in 1..Len(calib_buf) : IsFinite(calib_buf[j]))
         => IsFinite(ret.val)

\* the value threshold() returned is the one the buffer and alpha determine
C14_Value ==
  (pc = "calib" /\ op = "threshold") => ret = [ok |-> TRUE, val |-> threshold(alpha, calib_buf)]

\* a threshold() call leaves the calibrator as it was, and a call that comes
\* straight after another one returns the same value
C14_Step ==
  (pc = "calib" /\ op' = "threshold") =>
    /\ calib_buf' = calib_buf
    /\ alpha' = alpha
    /\ window' = window
    /\ op = "threshold" => ret' = ret

\* C14: threshold() is a read-only function of the buffer and alpha: a call
\* changes neither, and consecutive calls with no update or reset in between
\* return the same value whatever history produced the buffer.
C14_ThresholdReadOnly == []C14_Value /\ [][C14_Step]_vars

\* threshold() was called on an unsorted buffer that has already evicted
C14_Witness ==
  /\ pc = "calib"
  /\ op = "threshold"
  /\ Len(calib_buf) >= 2
  /\ calib_buf # sorted(calib_buf)
  /\ Len(accepted) > Len(calib_buf)
  /\ IsFinite(ret.val)

\* float.__ge__
Ge(a, b) == a # NaN /\ b # NaN /\ a >= b

\* the step is a successful update(x) of the calibrator
Updated(x) ==
  /\ pc = "calib"
  /\ op' = "update"
  /\ ret'.ok
  /\ calib_buf' # <<>>
  /\ x = Last(calib_buf')

C15_Step ==
  \A x \in Floats :
    ( /\ Updated(x)
      /\ calib_buf # <<>>
      /\ Len(calib_buf) < window
      /\ \A j \in 1..Len(calib_buf) : Ge(x, calib_buf[j]) )
    => Ge(threshold(alpha, calib_buf'), threshold(alpha, calib_buf))

\* C15: for every alpha in (0,1) and every non-empty buffer that is not yet
\* full, update(s) with s greater than or equal to every buffered score never
\* decreases threshold().
C15_HighScoresRaise == [][C15_Step]_vars

\* a high score entered a buffer that was not full and raised the threshold
C15_Witness ==
  /\ pc = "calib"
  /\ op = "update"
  /\ ret.ok
  /\ accepted = calib_buf
  /\ Len(calib_buf) >= 2
  /\ \A j \in 1..Len(calib_buf) : Ge(Last(calib_buf), calib_buf[j])
  /\ threshold(alpha, calib_buf) > threshold(alpha, SubSeq(calib_buf, 1, Len(calib_buf) - 1))

\* float.__le__
Le(a, b) == a # NaN /\ b # NaN /\ a <= b

C16_Step ==
  \A x \in Floats :
    ( /\ Updated(x)
      /\ Len(calib_buf) = window
      /\ Le(x, calib_buf[1]) )
    => ~Gt(threshold(alpha, calib_buf'), threshold(alpha, calib_buf))

\* C16: for every alpha in (0,1) and every full window, update(s) with s
\* less than or equal to the score it evicts never increases threshold().
C16_LowScoresLower == [][C16_Step]_vars

\* the calibrator is in the state of a new SlidingConformal(alpha, window)
\* that was fed the scores accepted since the last reset, and so returns the
\* same threshold()
C17_State ==
  pc = "calib" =>
    /\ calib_buf = Fed(<<>>, accepted, window)
    /\ threshold(alpha, calib_buf) = threshold(alpha, Fed(<<>>, accepted, window))
    /\ op = "reset" => threshold(alpha, calib_buf) = Inf

\* alpha and the window capacity survive a reset
C17_Step == (pc = "calib" /\ op' = "reset") => (alpha' = alpha /\ window' = window)

\* C17: after reset() a SlidingConformal is observably identical to a new one
\* with the same alpha and window: after any history, reset() followed by
\* any updates yields the same threshold() after every step as the same
\* updates on a new instance.
C17_ResetIsFresh == []C17_State /\ [][C17_Step]_vars

\* scores were cleared by a reset, and since then the window filled up again
\* and evicted
C17_Witness ==
  /\ pc = "calib"
  /\ past > 0
  /\ Len(accepted) > window
  /\ op = "threshold"
  /\ IsFinite(ret.val)

\* the two resets of the drift handler (stream.py: model.reset(), calib.reset())
DriftResets(bufs) == <<ContextReset(bufs[1]), CalibReset(bufs[2])>>

\* resetting what was just reset changes nothing
C18_State ==
  LET once == DriftResets(<<model_buf, calib_buf>>)
  IN  DriftResets(once) = once

\* a reset() called straight after a reset() leaves the object as it was
C18_Step ==
  (op = "reset" /\ op' = "reset") =>
    /\ calib_buf' = calib_buf
    /\ model_buf' = model_buf
    /\ accepted' = accepted
    /\ alpha' = alpha
    /\ window' = window

\* C18: reset is idempotent: reset() twice in a row with no update in
\* between, on the calibrator or on the context scorer, leaves the state that
\* one reset() leaves, and two drift signals on consecutive resets leave
\* scorer and calibrator in the same state as one.
C18_ResetIdempotent == []C18_State /\ [][C18_Step]_vars

\* reset() was called straight after a reset() that followed accepted scores
C18_Witness ==
  /\ pc = "calib"
  /\ op = "reset"
  /\ undone.again
  /\ undone.cleared = 0
  /\ past > 1
  /\ calib_buf = <<>>

\* the score of an update call is a finite real number
FiniteScore(obj) == ToFloat(obj) # None /\ IsFinite(ToFloat(obj)[1])

\* C19: update(score) fails with an invalid-input error for every score that
\* is not a finite real number (not convertible to a number, NaN, +/-inf),
\* so the buffer only ever contains finite scores.
C19_OnlyFiniteScores ==
  pc = "calib" =>
    /\ (op = "update" /\ ~FiniteScore(arg)) => ~ret.ok
    /\ \A j \in 1..Len(calib_buf) : IsFinite(calib_buf[j])

\* C20: score_and_update computes the score from the context buffer as it
\* was before the call and appends the event's token embeddings afterwards:
\* the score is the one a new scorer gives the event after it has processed
\* the events since the last reset and before this one, whatever the event's
\* own tokens add to the buffer.
C20_ScoreFromPast ==
  (pc = "scorer" /\ op = "score_and_update") =>
    LET earlier == SubSeq(accepted, 1, Len(accepted) - Len(arg))
        ctx     == ContextAppend(<<>>, earlier, ModelWindow)
    IN  /\ accepted = earlier \o arg
        /\ ret.val = ContextScore(ctx, arg)
        /\ model_buf = ContextAppend(ctx, arg, ModelWindow)

\* after a reset, an event was scored against the context of an earlier
\* event and its tokens then displaced that context
C20_Witness ==
  /\ pc = "scorer"
  /\ op = "score_and_update"
  /\ past > 0
  /\ Len(arg) = 2
  /\ Len(accepted) > Len(arg)
  /\ ret.val > 0
  /\ model_buf = <<Embed(arg[1]), Embed(arg[2])>>

\* the embeddings of the tokens toks, in order
Embeddings(toks) == [j \in 1..Len(toks) |-> Embed(toks[j])]

\* C21: after any sequence of score_and_update and reset calls the context
\* buffer is the embeddings of the last min(t, w) tokens seen since the most
\* recent reset, oldest first, in token order within and across events; it
\* never holds more than w, and an event of more than w tokens leaves only
\* its last w tokens.
C21_LastTokens ==
  pc = "scorer" =>
    /\ model_buf = Embeddings(LastN(accepted, Min(Len(accepted), ModelWindow)))
    /\ Len(model_buf) <= ModelWindow
    /\ (op = "score_and_update" /\ Len(arg) > ModelWindow)
         => model_buf = Embeddings(LastN(arg, ModelWindow))

\* an event longer than the window arrived at a non-empty buffer
C21_Witness ==
  /\ pc = "scorer"
  /\ op = "score_and_update"
  /\ Len(arg) > ModelWindow
  /\ Len(accepted) > Len(arg)
  /\ Len(model_buf) = ModelWindow
  /\ model_buf[1] # model_buf[2]

C22_Step ==
  (pc = "scorer" /\ op' = "score_and_update" /\ arg' = <<>>) =>
    /\ ret' = [ok |-> TRUE, val |-> 0]
    /\ model_buf' = model_buf

\* C22: score_and_update on an empty token sequence (None is the empty
\* sequence here, as line 71 makes it) returns 0.0 and leaves the context
\* buffer unchanged, whatever the buffer contains.
C22_EmptyEvent == [][C22_Step]_vars

\* an empty event was scored on a full buffer
C22_Witness ==
  /\ pc = "scorer"
  /\ op = "score_and_update"
  /\ arg = <<>>
  /\ ret.val = 0
  /\ Len(model_buf) = ModelWindow

\* 0-based index of the last event before the current one at which the
\* scorer was reset by a drift signal, -1 when there is none
ResetBefore ==
  LET ds == { d \in 0..(i - 1) : \E j \in 1..Len(drift_indices) : drift_indices[j] = d }
  IN  IF ds = {} THEN -1 ELSE CHOOSE d \in ds : \A x \in ds : x <= d

\* the current event is the first non-empty one of the run, or the first
\* non-empty one after a drift reset
FirstNonEmpty ==
  /\ CurTokens # <<>>
  /\ \A e \in (ResetBefore + 1)..(i - 1) : Split(Join(seqs[e + 1])) = <<>>

\* C23: on an empty context buffer (a new scorer, or one just reset)
\* score_and_update on a non-empty event returns 0.0 and still appends the
\* event's embeddings, so the buffer is non-empty afterwards; the first
\* non-empty event of a run and the first one after every drift reset
\* therefore score 0.0.
C23_ColdStart ==
  (mode = "transformer" /\ InEvent) =>
    /\ FirstNonEmpty => buf_before = <<>>
    /\ (buf_before = <<>> /\ CurTokens # <<>>) =>
         /\ s = 0
         /\ pc # "record" => model_buf # <<>>
         /\ model_buf # <<>> => model_buf = ContextAppend(<<>>, CurTokens, ModelWindow)

\* after a drift reset and an empty event, an event of two different tokens
\* scored 0.0 and filled the buffer
C23_Witness ==
  /\ mode = "transformer"
  /\ pc = "update"
  /\ i = 2
  /\ drift_indices = <<0>>
  /\ seqs[1] # <<>>
  /\ seqs[2] = <<>>
  /\ Len(CurTokens) = 2
  /\ s = 0
  /\ Len(model_buf) = 2

\* C24: every score score_and_update returns, for any token sequence and any
\* reachable buffer, is a finite number in the closed interval [0, 1], and
\* the call never raises.
C24_ScoreRange ==
  (pc = "scorer" /\ op = "score_and_update") =>
    /\ ret.ok
    /\ IsFinite(ret.val)
    /\ 0 <= ret.val
    /\ ret.val <= ScoreScale

\* a token that points away from the context (cosine similarity below 0,
\* distance above 1) scored exactly 1.0
C24_Witness ==
  /\ pc = "scorer"
  /\ op = "score_and_update"
  /\ arg = <<TokC>>
  /\ Len(accepted) > 1
  /\ Similarity(Embeddings(LastN(SubSeq(accepted, 1, Len(accepted) - 1),
                                 Min(Len(accepted) - 1, ModelWindow))), TokC) < 0
  /\ ret.val = ScoreScale

\* the vectors u and v (two components) point in the same direction
SameDirection(u, v) == u[1] * v[2] = u[2] * v[1] /\ Dot(u, v) > 0

\* Scenario C: a scorer with window 1 fed ["a"] then ["a"]: both calls
\* return 0.0, and the context of the second call is embed("a")
ScenarioC ==
  LET b1 == ContextAppend(<<>>, <<TokA>>, 1)
  IN  /\ ContextScore(<<>>, <<TokA>>) = 0
      /\ b1 = <<Embed(TokA)>>
      /\ WeightedSum(b1) = Embed(TokA)
      /\ ContextScore(b1, <<TokA>>) = 0

NewScorerAfter(toks) == ContextAppend(<<>>, toks, ModelWindow)

\* the scorer is in the state of a new one that saw the events since the
\* last reset; right after a reset that is the state of a new scorer
C26_State ==
  pc = "scorer" =>
    /\ model_buf = NewScorerAfter(accepted)
    /\ op = "reset" => model_buf = <<>>

\* and it answers the next event as that new scorer would
C26_Step ==
  (pc = "scorer" /\ op' = "score_and_update") =>
    LET r == score_and_update(NewScorerAfter(accepted), arg')
    IN  ret'.val = r.score /\ model_buf' = r.buf

\* C26: after reset() a context scorer is observably identical to a new one
\* with the same embed_dim, window, decay and seed: after any history,
\* reset() followed by any events returns the same scores as those events
\* fed to a new instance.
C26_ScorerResetIsFresh == []C26_State /\ [][C26_Step]_vars

\* tokens were cleared by a reset; of the events since, the last one scored
\* above 0
C26_Witness ==
  /\ pc = "scorer"
  /\ past > 0
  /\ op = "score_and_update"
  /\ Len(accepted) > Len(arg)
  /\ ret.val > 0

\* the vector _embed returned is the one its token determines (seed and
\* embed_dim are fixed for the instance)
C27_Value == (pc = "scorer" /\ op = "_embed") => ret = [ok |-> TRUE, val |-> Embed(arg)]

\* computing an embedding changes no state of the scorer
C27_Step ==
  (pc = "scorer" /\ op' = "_embed") =>
    /\ model_buf' = model_buf
    /\ accepted' = accepted
    /\ UNCHANGED <<config, loop, calib_buf>>

DriftedAt(e) == \E j \in 1..Len(drift_indices) : drift_indices[j] = e

NoEvents ==
  [model_buf |-> <<>>, calib_buf |-> <<>>, calib_n |-> 0, warm_scores |-> <<>>,
   fixed_thr |-> None, seen |-> <<>>, scores |-> <<>>, thr_series |-> <<>>,
   flags |-> <<>>]

ReplayEvent(st, e) ==
  LET r   == scorer(st.model_buf, Join(seqs[e + 1]))
      ws  == IF Len(st.warm_scores) < warmup
             THEN Append(st.warm_scores, r.score) ELSE st.warm_scores
      ft  == IF no_calib /\ st.fixed_thr = None /\ Len(ws) >= warmup
             THEN <<FixedThreshold(alpha, ws)>> ELSE st.fixed_thr
      cb  == IF no_calib THEN st.calib_buf
             ELSE CalibUpdate(st.calib_buf, r.score, window)
      cn  == IF no_calib THEN st.calib_n ELSE st.calib_n + 1
      t   == IF no_calib THEN (IF ft # None THEN ft[1] ELSE Inf)
             ELSE threshold(alpha, cb)
      a   == IF no_calib THEN ft # None /\ Exceeds(r.score, t)
             ELSE WarmupGate(cn, warmup) /\ Exceeds(r.score, t)
      hit == DriftedAt(e)
  IN  [model_buf   |-> IF hit /\ mode = "transformer"
                       THEN ContextReset(r.buf) ELSE r.buf,
       calib_buf   |-> IF hit /\ ~no_calib THEN CalibReset(cb) ELSE cb,
       calib_n     |-> cn,
       warm_scores |-> ws,
       fixed_thr   |-> ft,
       seen        |-> IF hit /\ ~no_calib THEN <<>> ELSE Append(st.seen, r.score),
       scores      |-> Append(st.scores, r.score),
       thr_series  |-> Append(st.thr_series, t),
       flags       |-> Append(st.flags, IF a THEN 1 ELSE 0)]

RECURSIVE Replay(_)
Replay(k) == IF k = 0 THEN NoEvents ELSE ReplayEvent(Replay(k - 1), k - 1)

AlphaOutside(a) == ~(0 < a[1] /\ a[1] < a[2])
NotPositiveInteger(obj) == obj[1] # "int" \/ obj[2] <= 0
Constructing == op = "init"

\* C29: a calibrator constructed with alpha outside (0,1) or window <= 0, and
\* a context scorer constructed with an embed_dim or window that is not a
\* positive integer or a decay outside (0,1), is rejected with an error and
\* no instance exists; every instance that was constructed has alpha in
\* (0,1) and a window > 0 (the scorer: embed_dim > 0, window > 0, decay in
\* (0,1)) in every state of its life.
C29_ValidatedConfig ==
  /\ Constructing /\ arg[1] = "SlidingConformal"
       /\ (AlphaOutside(arg[2]) \/ arg[3][1] <= 0)
       => pc = "rejected" /\ ~ret.ok
  /\ Constructing /\ arg[1] = "TransformerScorer"
       /\ (NotPositiveInteger(arg[2]) \/ NotPositiveInteger(arg[3])
             \/ AlphaOutside(arg[4]))
       => pc = "rejected" /\ ~ret.ok
  /\ pc = "calib" => ~AlphaOutside(alpha) /\ window > 0
  /\ pc = "scorer" => /\ EmbedDim > 0
                      /\ ModelWindow > 0
                      /\ ~AlphaOutside(<<DecayNum, DecayDen>>)

\* C30: a run whose alpha is outside (0,1), whose window is <= 0 or whose
\* warmup is <= 0 is aborted before the loop: it never scores an event.  (The
\* scorer's decay and embedding dimension are literals of the program.)
InvalidConfig == AlphaOutside(alpha) \/ window <= 0 \/ warmup <= 0

C30_NoEventUnderInvalidConfig ==
  InvalidConfig => pc = "aborted" /\ n_total = 0 /\ scores = <<>>

\* the tokens of the first k events, as the scorer received them
RECURSIVE TokensUpTo(_)
TokensUpTo(k) ==
  IF k = 0 THEN <<>> ELSE TokensUpTo(k - 1) \o Split(Join(seqs[k]))

\* the detector has not signalled in this run
NeverSignalled == drift_indices = <<>>

FirstN(xs, n) == SubSeq(xs, 1, n)

\* the labels are shorter than the event stream
LabelsShort == labels # None /\ Len(labels[1]) < Len(seqs)

\* C32: a run whose labels are shorter than its event stream ends normally,
\* and its TPR-at-1%-FPR metric is tpr_at_fpr over the overlapping prefix:
\* the scores of the first len(labels) events paired with the labels.
C32_OverlappingPrefix ==
  (LabelsShort /\ pc = "done") =>
    LET n == Len(labels[1])
        m == tpr_at_fpr(FirstN(scores, n), labels, TargetFpr)
    IN  /\ Len(scores) = Len(seqs)
        /\ tpr1 = m.tpr
        /\ thr_at_1pct = m.thr

\* the call just made is perc on a non-empty list
PercCalled == op = "perc" /\ arg[1] # <<>>
\* v is the element at 0-based index k of xs sorted ascending
AtSortedIndex(xs, k, v) ==
  /\ \E j \in 1..Len(xs) : xs[j] = v
  /\ CountRel(xs, v, Lt) <= k
  /\ CountRel(xs, v, Le) >= k + 1

\* C33: perc(xs, p) on a non-empty list of size m returns the element at
\* 0-based index floor((p / 100) * (m - 1)) of xs sorted ascending, so the
\* minimum for p = 0, the maximum for p = 100, and always a member of xs;
\* on the empty list it returns NaN; the caller's list is as it was.
C33_PercFloorIndex ==
  op = "perc" =>
    LET xs == arg[1]
        p  == arg[2]
    IN  /\ ret.samples = xs
        /\ xs = <<>> => ret.val = NaN
        /\ xs # <<>> =>
             /\ AtSortedIndex(xs, (p * (Len(xs) - 1)) \div 100, ret.val)
             /\ p = 0 => \A j \in 1..Len(xs) : ret.val <= xs[j]
             /\ p = 100 => \A j \in 1..Len(xs) : ret.val >= xs[j]

Class(lab, c) == { j \in 1..Len(lab[1]) : lab[1][j] = c }
TprCalled == op = "tpr_at_fpr"
Aligned == arg[2] # None /\ Len(arg[1]) = Len(arg[2][1])
BothClasses == Aligned /\ Class(arg[2], 0) # {} /\ Class(arg[2], 1) # {}

\* clamp(floor((1 - f) * (n - 1)), 0, n - 1) for f = f[1] / f[2] <= 1
QuantileIndex(f, n) == Max(0, Min(((f[2] - f[1]) * (n - 1)) \div f[2], n - 1))

C36_SeparatedGivesOne ==
  (TprCalled /\ BothClasses /\ arg[3][1] > 0
     /\ \A j \in Class(arg[2], 1), k \in Class(arg[2], 0) : arg[1][j] > arg[1][k])
    => ret.val[1] = ret.val[2]

\* two positives with different scores, both above the only negative
C36_Witness ==
  /\ TprCalled /\ BothClasses /\ arg[3][1] > 0
  /\ \A j \in Class(arg[2], 1), k \in Class(arg[2], 0) : arg[1][j] > arg[1][k]
  /\ \E j, k \in Class(arg[2], 1) : arg[1][j] # arg[1][k]
  /\ ret.val[1] = ret.val[2]

\* C37: tpr_at_fpr returns NaN, and raises nothing, when no labels are
\* given, when scores and labels differ in length, and when there is no
\* negative or no positive; in every other case it returns a number.
C37_NaNCases ==
  TprCalled =>
    /\ ret.ok
    /\ (ret.val[1] = NaN) <=> ~BothClasses
    /\ (ret.thr = NaN) <=> ~BothClasses

\* aligned, non-empty scores and labels without a positive gave NaN
C37_Witness ==
  /\ TprCalled
  /\ Aligned /\ arg[1] # <<>>
  /\ Class(arg[2], 1) = {}
  /\ ret.val[1] = NaN /\ ret.thr = NaN

\* C38: in both policies a recorded flag is set only where the event's score
\* is strictly greater than the threshold recorded for it and that threshold
\* is finite: an event whose score equals its threshold, or whose threshold
\* is infinite, is not flagged.  The same holds of the event in progress once
\* it is decided.
C38_StrictlyAbove ==
  /\ \A j \in 1..Len(flags) :
       flags[j] = 1 => scores[j] > thr_series[j] /\ thr_series[j] < Inf
  /\ (pc \in {"drift", "record"} /\ is_anom) => s > thr /\ thr < Inf

\* a run in which one event tied with its finite threshold and was not
\* flagged, one had an infinite threshold, and one was flagged
C38_Witness ==
  /\ \E j \in 1..Len(flags) : flags[j] = 0 /\ scores[j] = thr_series[j]
  /\ \E j \in 1..Len(flags) : flags[j] = 0 /\ thr_series[j] = Inf
  /\ \E j \in 1..Len(flags) : flags[j] = 1

\* C39: in the adaptive policy the threshold an event is decided against is
\* finite, and it is not below the event's score whenever
\* round((1 - alpha) * n) = n for the buffer length n after the update; the
\* first event of the run and the first event after a drift reset of the
\* calibrator are decided against their own score and are not flagged,
\* whatever the warm-up counter.
C39_OwnScoreBounds ==
  ~no_calib =>
    /\ pc = "drift" =>
         LET n == Len(calib_buf)
         IN  /\ thr < Inf
             /\ RoundHalfEven((alpha[2] - alpha[1]) * n, alpha[2]) = n => thr >= s
             /\ SinceReset(i) = 1 => n = 1 /\ thr = s /\ ~is_anom
    /\ \A j \in 1..Len(thr_series) :
         /\ thr_series[j] < Inf
         /\ SinceReset(j - 1) = 1 => thr_series[j] = scores[j] /\ flags[j] = 0

\* with warmup 0 or 1 met, the first event after a drift reset has a higher
\* score than the event before it and is still not flagged
C39_Witness ==
  /\ ~no_calib
  /\ warmup <= 1
  /\ pc = "drift"
  /\ i > 0
  /\ SinceReset(i) = 1
  /\ s > scores[i]
  /\ thr = s /\ ~is_anom

\* the calibrator's buffer when event e was decided in the adaptive policy:
\* the scores since the reset before e, e's own included, up to the window
DecidedOn(e) ==
  LET since == SubSeq(AllScores, e - SinceReset(e) + 2, e + 1)
  IN  LastN(since, Min(Len(since), window))

\* C40: the event at which drift is signalled is decided before the resets:
\* its score comes from the scorer's context as it was, and its threshold and
\* flag, as computed and as recorded, come from the calibrator's buffer as
\* it was, the event's own score included; the resets show from the next
\* event on, which starts on an empty context and is decided against a
\* calibrator that holds its score alone.
C40_DecideThenReset ==
  /\ (pc = "record" /\ DriftedNow) =>
       /\ mode = "transformer" =>
            /\ s = ContextScore(buf_before, CurTokens)
            /\ model_buf = <<>>
       /\ ~no_calib =>
            /\ thr = threshold(alpha, DecidedOn(i))
            /\ is_anom = (WarmupGate(calib_n, warmup) /\ Exceeds(s, thr))
            /\ calib_buf = <<>>
  /\ ~no_calib =>
       \A j \in 1..Len(drift_indices) :
         LET d == drift_indices[j]
         IN  d < Len(thr_series) =>
               /\ thr_series[d + 1] = threshold(alpha, DecidedOn(d))
               /\ thr_series[d + 1] < Inf
               /\ flags[d + 1] = 1 => scores[d + 1] > thr_series[d + 1]
  /\ (InEvent /\ i > 0 /\ DriftedAt(i - 1)) =>
       /\ mode = "transformer" => buf_before = <<>>
       /\ (~no_calib /\ pc \in {"threshold", "drift"}) => calib_buf = <<s>>

\* drift was signalled at an event that is flagged against a threshold taken
\* from two buffered scores, and the calibrator is empty afterwards
C40_Witness ==
  /\ pc = "record" /\ DriftedNow
  /\ ~no_calib /\ mode = "transformer"
  /\ is_anom
  /\ Len(DecidedOn(i)) = 2
  /\ buf_before # <<>>
  /\ s > 0
  /\ calib_buf = <<>> /\ model_buf = <<>>
====
